---- MODULE Spec2Model ----
(***************************************************************************)
(* Admin REST backend (orders, customers, products, competitors) over a    *)
(* PostgreSQL connection pool.  The module models the order-creation       *)
(* transaction of the orders router statement by statement, with the       *)
(* single-statement handlers that share its pool.                          *)
(*                                                                         *)
(* Money is fixed point, in hundredths of the currency unit (25.00 is      *)
(* 2500); binary floating point rounding is not modelled.                  *)
(***************************************************************************)
EXTENDS Integers, Sequences, FiniteSets, TLC

\* ------------------------------------------------------------------ bounds
NReq     == 2   \* POST /orders requests of a behaviour
NConn    == 2   \* connections of the orders router's pool
NCust    == 1   \* stored customers
MaxItems == 2   \* line items of a request

Reqs  == 1..NReq
Conns == 1..NConn
Custs == 1..NCust

\* SQL NULL, also what the driver binds for an undefined parameter.
NULL == "NULL"
\* customer_id of an order without customer (falsy at line 179).
NoCustomer == 0

\* Line items a request may carry (quantity, unit_price in hundredths).
ItemChoices ==
  { [quantity |-> 2, unit_price |-> 1000], [quantity |-> 1, unit_price |-> 500] }

RECURSIVE SeqsUpTo(_, _)
SeqsUpTo(S, n) ==
  IF n = 0 THEN { <<>> }
  ELSE LET shorter == SeqsUpTo(S, n - 1)
       IN  shorter \cup { Append(s, x) : s \in { t \in shorter : Len(t) = n - 1 }, x \in S }

\* req.body of POST /orders: items may be absent, empty or a list.
OrderBodies ==
  { [has_items |-> h, items |-> its, customer_id |-> c, notes |-> NULL] :
      h \in BOOLEAN, its \in SeqsUpTo(ItemChoices, MaxItems), c \in {NoCustomer} \cup Custs }

ValidBodies == { b \in OrderBodies : b.has_items \/ b.items = <<>> }

\* A JSON body with any subset of the fields cols, field c holding val[c].
Payloads(cols, val) == { [c \in S |-> val[c]] : S \in SUBSET cols }

\* req.body of PUT /orders/:id (line 206)
OrderColumns == { "status", "payment_status", "notes" }
OrderUpdates ==
  Payloads(OrderColumns, [status |-> "completed", payment_status |-> "paid", notes |-> "note"])

VARIABLES
  orders,       \* committed table orders: id -> row
  order_items,  \* committed table order_items: set of rows
  customers,    \* committed table customers: id -> row
  nextOrderId,  \* the orders id sequence
  conn,         \* pool connection -> [busy, inTxn, ord, del, items, cust]
  pc,           \* POST /orders request -> position in the handler
  body,         \* POST /orders request -> req.body
  client,       \* POST /orders request -> connection checked out (0: none)
  order,        \* POST /orders request -> id of the row INSERT returned (0: none)
  itemIdx,      \* POST /orders request -> next line item to insert
  resp,         \* POST /orders request -> status sent (0: none)
  log,          \* POST /orders request -> its connect, BEGIN, throw, COMMIT, ROLLBACK,
                \* responses and release, in order
  nextCustId,   \* the customers id sequence
  products,     \* committed table products: id -> row
  competitors,  \* committed table competitors: id -> row
  lastResp,     \* response of the last single-statement request: [status, error]
  lastReq,      \* the PUT request served, when one is under study: [route, id, fields]
  list          \* the list request in progress or last served: its queries and results,
                \* with the rows its page query read (pageRel) and the states the
                \* table went through while it was served (seen)

\* State of the order-creation handler and of its pool.
txnVars == << nextOrderId, conn, pc, body, client, order, itemIdx, resp, log >>

\* State only the customers, products and competitors routers touch.
crudVars == << nextCustId, products, competitors, lastResp, lastReq, list >>

vars ==
  << orders, order_items, customers, nextOrderId, conn, pc, body, client, order,
     itemIdx, resp, log, nextCustId, products, competitors, lastResp, lastReq, list >>

\* ------------------------------------------------------- pure helpers
RECURSIVE SumSeq(_)
SumSeq(s) == IF s = <<>> THEN 0 ELSE Head(s) + SumSeq(Tail(s))

LineTotal(item) == item.quantity * item.unit_price

\* lines 152-155
Subtotal(items) == SumSeq([i \in 1..Len(items) |-> LineTotal(items[i])])

\* line 156: subtotal * 0.08
TaxOf(subtotal) == (subtotal * 8) \div 100

\* line 157
TotalOf(subtotal) == subtotal + TaxOf(subtotal)

\* line 147: !items || items.length === 0
ItemsMissing(b) == ~b.has_items \/ Len(b.items) = 0

\* col = COALESCE($i, col), $i bound to the body's field: an absent field is
\* bound as NULL and the column keeps its value.
CoalesceParam(p, col, old) == IF col \in DOMAIN p THEN p[col] ELSE old

\* ------------------------------------------------- database sessions
EmptyFn == [x \in {} |-> NULL]

CleanConn == [busy |-> FALSE, inTxn |-> FALSE, ord |-> EmptyFn, del |-> {},
              items |-> {}, cust |-> EmptyFn]

\* What a session s reads: committed rows under its own uncommitted writes.
ViewOrders(s) ==
  [i \in (DOMAIN orders \ s.del) \cup DOMAIN s.ord |->
     IF i \in DOMAIN s.ord THEN s.ord[i] ELSE orders[i]]

ViewItems(s) ==
  { it \in order_items : it.order_id \notin s.del } \cup s.items

ViewCustomers(s) ==
  [c \in DOMAIN customers |-> IF c \in DOMAIN s.cust THEN s.cust[c] ELSE customers[c]]

\* Row locks held by the open transaction of another connection.
OrderLocked(k, id) ==
  \E j \in Conns \ {k} :
     id \in DOMAIN orders /\ (id \in DOMAIN conn[j].ord \/ id \in conn[j].del)

CustomerLocked(k, c) == \E j \in Conns \ {k} : c \in DOMAIN conn[j].cust

\* Mutant: the catch block without its ROLLBACK.
DiscardedNothing(c) == c

\* The session's writes dropped: ROLLBACK, or the session lost.
Discarded(c) == [c EXCEPT !.inTxn = FALSE, !.ord = EmptyFn, !.del = {},
                          !.items = {}, !.cust = EmptyFn]

\* f with x mapped to v (x added to the domain when new).
Put(f, x, v) == [y \in DOMAIN f \cup {x} |-> IF y = x THEN v ELSE f[y]]

\* ------------------------------------------------------------- Init
EmailOf(c) == <<"a@x", "b@x", "c@x">>[c]

InitCustomer(c) ==
  [name |-> "name", email |-> EmailOf(c), phone |-> NULL, segment |-> "new", notes |-> NULL,
   total_spent |-> 0, order_count |-> 0]

NoResp == [status |-> 0, error |-> NULL]
NoReq == [route |-> NULL, id |-> 0, fields |-> {}]
NoList == [stage |-> "idle"]

\* req.body of a request that has not arrived.
NoBody == [has_items |-> FALSE, items |-> <<>>, customer_id |-> NoCustomer, notes |-> NULL]

\* The pool and the handlers before any request.
InitTxn ==
  /\ nextOrderId = 1
  /\ conn = [k \in Conns |-> CleanConn]
  /\ pc = [r \in Reqs |-> "idle"]
  /\ body = [r \in Reqs |-> NoBody]
  /\ client = [r \in Reqs |-> 0]
  /\ order = [r \in Reqs |-> 0]
  /\ itemIdx = [r \in Reqs |-> 0]
  /\ resp = [r \in Reqs |-> 0]
  /\ log = [r \in Reqs |-> <<>>]

Init ==
  /\ orders = EmptyFn
  /\ order_items = {}
  /\ customers = [c \in Custs |-> InitCustomer(c)]
  /\ nextCustId = NCust + 1
  /\ products = EmptyFn
  /\ competitors = EmptyFn
  /\ lastResp = NoResp
  /\ lastReq = NoReq
  /\ list = NoList
  /\ InitTxn

\* ------------------------------------------- POST /orders (lines 139-200)
Logged(r, evs) == [log EXCEPT ![r] = log[r] \o evs]

\* Mutant: no client.release().
ReleasedNever(c) == c

\* finally { client.release() }: the connection goes back to the pool as it is.
Released(c) == [c EXCEPT !.busy = FALSE]

\* A statement of the try block threw: control goes to the catch block.
Throw(r, events) ==
  /\ pc' = [pc EXCEPT ![r] = "rollback"]
  /\ log' = Logged(r, events \o <<"throw">>)

\* line 140: await pool.connect(), outside the try block.
PostConnect(r) ==
  /\ pc[r] = "idle"
  /\ \E b \in ValidBodies :
       /\ body' = [body EXCEPT ![r] = b]
       /\ \/ \E k \in Conns :
               /\ ~conn[k].busy
               /\ conn' = [conn EXCEPT ![k].busy = TRUE]
               /\ client' = [client EXCEPT ![r] = k]
               /\ pc' = [pc EXCEPT ![r] = "begin"]
               /\ log' = Logged(r, <<"connect">>)
          \/ /\ pc' = [pc EXCEPT ![r] = "done"]
             /\ log' = Logged(r, <<"connect rejected">>)
             /\ UNCHANGED << conn, client >>
  /\ UNCHANGED << orders, order_items, customers, nextOrderId, order, itemIdx, resp >>

\* lines 143-149: BEGIN, then the items check; the 400 return runs finally.
PostBegin(r) ==
  /\ pc[r] = "begin"
  /\ LET k == client[r] IN
     \/ /\ ~ItemsMissing(body[r])
        /\ conn' = [conn EXCEPT ![k].inTxn = TRUE]
        /\ pc' = [pc EXCEPT ![r] = "insert_order"]
        /\ log' = Logged(r, <<"BEGIN">>)
        /\ UNCHANGED resp
     \/ /\ ItemsMissing(body[r])
        /\ conn' = [conn EXCEPT ![k] = Released([conn[k] EXCEPT !.inTxn = TRUE])]
        /\ resp' = [resp EXCEPT ![r] = 400]
        /\ pc' = [pc EXCEPT ![r] = "done"]
        /\ log' = Logged(r, <<"BEGIN", "res400", "release">>)
     \/ /\ Throw(r, <<"BEGIN">>)
        /\ UNCHANGED << conn, resp >>
  /\ UNCHANGED << orders, order_items, customers, nextOrderId, body, client, order, itemIdx >>

\* lines 151-167: totals, INSERT INTO orders ... RETURNING *
NewOrder(b) ==
  [customer_id |-> b.customer_id, subtotal |-> Subtotal(b.items),
   tax |-> TaxOf(Subtotal(b.items)), total |-> TotalOf(Subtotal(b.items)),
   notes |-> b.notes, status |-> "pending", payment_status |-> "unpaid"]

PostInsertOrder(r) ==
  /\ pc[r] = "insert_order"
  /\ LET k == client[r] IN
     \/ /\ conn' = [conn EXCEPT ![k].ord = Put(@, nextOrderId, NewOrder(body[r]))]
        /\ order' = [order EXCEPT ![r] = nextOrderId]
        /\ nextOrderId' = nextOrderId + 1
        /\ itemIdx' = [itemIdx EXCEPT ![r] = 1]
        /\ pc' = [pc EXCEPT ![r] = "insert_item"]
        /\ UNCHANGED log
     \/ /\ Throw(r, <<>>)
        /\ UNCHANGED << conn, order, nextOrderId, itemIdx >>
  /\ UNCHANGED << orders, order_items, customers, body, client, resp >>

\* Mutant: total_price bound to unit_price.
NewItemUnitPrice(id, n, item) ==
  [order_id |-> id, line |-> n, quantity |-> item.quantity,
   unit_price |-> item.unit_price, total_price |-> item.unit_price]

\* lines 170-176: one INSERT INTO order_items per line item
NewItem(id, n, item) ==
  [order_id |-> id, line |-> n, quantity |-> item.quantity,
   unit_price |-> item.unit_price, total_price |-> LineTotal(item)]

\* line 179: where the handler goes once the items loop is over
AfterItems(b) == IF b.customer_id # NoCustomer THEN "update_customer" ELSE "commit"

PostInsertItem(r) ==
  /\ pc[r] = "insert_item"
  /\ LET k == client[r]
         n == itemIdx[r]
     IN
     \/ /\ conn' = [conn EXCEPT ![k].items = @ \cup {NewItem(order[r], n, body[r].items[n])}]
        /\ itemIdx' = [itemIdx EXCEPT ![r] = n + 1]
        /\ pc' = [pc EXCEPT ![r] = IF n = Len(body[r].items) THEN AfterItems(body[r])
                                   ELSE "insert_item"]
        /\ UNCHANGED log
     \/ /\ Throw(r, <<>>)
        /\ UNCHANGED << conn, itemIdx >>
  /\ UNCHANGED << orders, order_items, customers, nextOrderId, body, client, order, resp >>

\* Mutant: total_spent = $1.
BumpedAssign(row, total) ==
  [row EXCEPT !.order_count = @ + 1, !.total_spent = total]

\* lines 180-187: order_count = order_count + 1, total_spent = total_spent + $1
Bumped(row, total) ==
  [row EXCEPT !.order_count = @ + 1, !.total_spent = @ + total]

\* The UPDATE waits for the row lock of another open transaction.
CustomerRowFree(k, c) == ~CustomerLocked(k, c)

PostUpdateCustomer(r) ==
  /\ pc[r] = "update_customer"
  /\ LET k == client[r]
         c == body[r].customer_id
     IN
     \/ /\ CustomerRowFree(k, c)
        /\ conn' = [conn EXCEPT ![k].cust =
                      IF c \in DOMAIN customers
                      THEN Put(@, c, Bumped(ViewCustomers(conn[k])[c],
                                            TotalOf(Subtotal(body[r].items))))
                      ELSE @]
        /\ pc' = [pc EXCEPT ![r] = "commit"]
        /\ UNCHANGED log
     \/ /\ Throw(r, <<>>)
        /\ UNCHANGED conn
  /\ UNCHANGED << orders, order_items, customers, nextOrderId, body, client, order,
                  itemIdx, resp >>

\* lines 190-192, then finally
PostCommit(r) ==
  /\ pc[r] = "commit"
  /\ LET k == client[r] IN
     \/ /\ orders' = ViewOrders(conn[k])
        /\ order_items' = ViewItems(conn[k])
        /\ customers' = ViewCustomers(conn[k])
        /\ conn' = [conn EXCEPT ![k] = Released(Discarded(conn[k]))]
        /\ resp' = [resp EXCEPT ![r] = 201]
        /\ pc' = [pc EXCEPT ![r] = "done"]
        /\ log' = Logged(r, <<"COMMIT", "res201", "release">>)
     \/ /\ Throw(r, <<"COMMIT">>)
        /\ UNCHANGED << orders, order_items, customers, conn, resp >>
  /\ UNCHANGED << nextOrderId, body, client, order, itemIdx >>

\* Mutant: the 500 response sent before the ROLLBACK.
CatchEventsRespondFirst(rollbackOk) ==
  IF rollbackOk THEN <<"res500", "ROLLBACK", "release">> ELSE <<"res500", "ROLLBACK", "release">>

\* lines 193-199: catch { ROLLBACK; 500 } finally { release }.  A ROLLBACK
\* that fails is a lost session, whose transaction the server aborts; the
\* rejection leaves the catch block before the response.
CatchEvents(rollbackOk) ==
  IF rollbackOk THEN <<"ROLLBACK", "res500", "release">> ELSE <<"ROLLBACK", "release">>

PostRollback(r) ==
  /\ pc[r] = "rollback"
  /\ LET k == client[r] IN
     /\ conn' = [conn EXCEPT ![k] = Released(Discarded(conn[k]))]
     /\ \E ok \in BOOLEAN :
          /\ resp' = [resp EXCEPT ![r] = IF ok THEN 500 ELSE 0]
          /\ log' = Logged(r, CatchEvents(ok))
     /\ pc' = [pc EXCEPT ![r] = "done"]
  /\ UNCHANGED << orders, order_items, customers, nextOrderId, body, client, order, itemIdx >>

\* -------------------------------- PUT /orders/:id (lines 203-228)
\* Mutant: the SET list without COALESCE.
UpdatedOrderNoCoalesce(row, p) ==
  [row EXCEPT !.status = IF "status" \in DOMAIN p THEN p.status ELSE NULL,
              !.payment_status = IF "payment_status" \in DOMAIN p THEN p.payment_status
                                 ELSE NULL,
              !.notes = IF "notes" \in DOMAIN p THEN p.notes ELSE NULL]

UpdatedOrder(row, p) ==
  [row EXCEPT !.status = CoalesceParam(p, "status", @),
              !.payment_status = CoalesceParam(p, "payment_status", @),
              !.notes = CoalesceParam(p, "notes", @)]

\* pool.query runs the statement on an idle connection k of the pool, in
\* whatever transaction that session has open; outside one it commits at once.
PutOrderStmt(k, id, p) ==
  /\ ~conn[k].busy
  /\ ~OrderLocked(k, id)
  /\ id \in DOMAIN ViewOrders(conn[k])
  /\ LET row == UpdatedOrder(ViewOrders(conn[k])[id], p) IN
     IF conn[k].inTxn
     THEN /\ conn' = [conn EXCEPT ![k].ord = Put(@, id, row)]
          /\ UNCHANGED orders
     ELSE /\ orders' = Put(orders, id, row)
          /\ UNCHANGED conn
  /\ UNCHANGED << order_items, customers, nextOrderId, pc, body, client, order, itemIdx,
                  resp, log >>

\* The handler with its response (lines 219-223).
PutOrder(k, id, p) ==
  \/ /\ PutOrderStmt(k, id, p)
     /\ lastResp' = [status |-> 200, error |-> NULL]
  \/ /\ ~conn[k].busy
     /\ id \notin DOMAIN ViewOrders(conn[k])
     /\ lastResp' = [status |-> 404, error |-> "Order not found"]
     /\ UNCHANGED << orders, order_items, customers, txnVars >>

\* -------------------------------- DELETE /orders/:id (lines 231-247)
Without(f, x) == [y \in DOMAIN f \ {x} |-> f[y]]

\* order_items rows go with their order (ON DELETE CASCADE, line 235).
DeleteOrder(k, id) ==
  /\ ~conn[k].busy
  /\ ~OrderLocked(k, id)
  /\ id \in DOMAIN ViewOrders(conn[k])
  /\ IF conn[k].inTxn
     THEN /\ conn' = [conn EXCEPT ![k].ord = Without(@, id),
                                  ![k].items = { it \in @ : it.order_id # id },
                                  ![k].del = IF id \in DOMAIN orders THEN @ \cup {id} ELSE @]
          /\ UNCHANGED << orders, order_items >>
     ELSE /\ orders' = Without(orders, id)
          /\ order_items' = { it \in order_items : it.order_id # id }
          /\ UNCHANGED conn
  /\ UNCHANGED << customers, nextOrderId, pc, body, client, order, itemIdx, resp, log >>

\* ------------------------------------------------ customers router
MaxCustomers == 2   \* customer ids a behaviour may hand out

Emails == { "a@x", "b@x" }

EmptyBody == [c \in {} |-> NULL]

\* req.body of POST /customers (line 97): any subset of the fields.
CustomerBodies ==
  UNION { Payloads({"name", "email", "phone", "segment", "notes"},
                   [name |-> "name", email |-> e, phone |-> "555", segment |-> "vip",
                    notes |-> "note"]) : e \in Emails }

\* req.body of PUT /customers/:id (line 124): any subset of the fields.
CustomerColumns ==
  { "name", "email", "phone", "segment", "notes", "total_spent", "order_count" }

CustomerUpdates ==
  UNION { Payloads(CustomerColumns,
                   [name |-> "renamed", email |-> e, phone |-> "555", segment |-> "vip",
                    notes |-> "note", total_spent |-> 100, order_count |-> 1]) :
            e \in Emails }

\* The unique constraint on customers.email: a row other than id holds e.
EmailTaken(e, id) == \E c \in DOMAIN customers : c # id /\ customers[c].email = e

\* line 107: segment || 'new'; phone and notes are bound as given.
NewCustomer(b) ==
  [name |-> b.name, email |-> b.email,
   phone |-> CoalesceParam(b, "phone", NULL),
   segment |-> CoalesceParam(b, "segment", "new"),
   notes |-> CoalesceParam(b, "notes", NULL),
   total_spent |-> 0, order_count |-> 0]

Response(status, error) == [status |-> status, error |-> error]

\* error.message of the driver's error with SQLSTATE code.
ErrorMessage(code) ==
  IF code = "23505" THEN "duplicate key value violates unique constraint"
  ELSE "connection terminated"

\* Mutant: no test of error.code.
PostCustomerCatchAll(code) == Response(500, ErrorMessage(code))

\* lines 111-117: the catch block of POST /customers
PostCustomerCatch(code) ==
  IF code = "23505" THEN Response(400, "Customer with this email already exists")
  ELSE Response(500, ErrorMessage(code))

\* lines 95-118.  dbOk: the database executes the statement.
PostCustomer(b, dbOk) ==
  /\ IF "name" \notin DOMAIN b \/ "email" \notin DOMAIN b
     THEN /\ lastResp' = Response(400, "Name and email are required")
          /\ UNCHANGED << customers, nextCustId >>
     ELSE IF ~dbOk
     THEN /\ lastResp' = PostCustomerCatch("08006")
          /\ UNCHANGED << customers, nextCustId >>
     ELSE IF EmailTaken(b.email, 0)
     THEN /\ lastResp' = PostCustomerCatch("23505")
          /\ UNCHANGED << customers, nextCustId >>
     ELSE /\ nextCustId <= MaxCustomers
          /\ customers' = Put(customers, nextCustId, NewCustomer(b))
          /\ nextCustId' = nextCustId + 1
          /\ lastResp' = Response(201, NULL)
  /\ UNCHANGED << products, competitors >>

\* lines 127-138: the SET list of PUT /customers/:id
UpdatedCustomer(row, p) ==
  [row EXCEPT !.name = CoalesceParam(p, "name", @),
              !.email = CoalesceParam(p, "email", @),
              !.phone = CoalesceParam(p, "phone", @),
              !.segment = CoalesceParam(p, "segment", @),
              !.notes = CoalesceParam(p, "notes", @),
              !.total_spent = CoalesceParam(p, "total_spent", @),
              !.order_count = CoalesceParam(p, "order_count", @)]

\* lines 146-149: the catch block of PUT /customers/:id
PutCustomerCatch(code) == Response(500, ErrorMessage(code))

\* lines 121-150.  The UPDATE waits for a row lock of an open transaction.
PutCustomer(id, p, dbOk) ==
  /\ ~CustomerLocked(0, id)
  /\ IF ~dbOk
     THEN /\ lastResp' = PutCustomerCatch("08006")
          /\ UNCHANGED customers
     ELSE IF id \notin DOMAIN customers
     THEN /\ lastResp' = Response(404, "Customer not found")
          /\ UNCHANGED customers
     ELSE IF EmailTaken(UpdatedCustomer(customers[id], p).email, id)
     THEN /\ lastResp' = PutCustomerCatch("23505")
          /\ UNCHANGED customers
     ELSE /\ customers' = Put(customers, id, UpdatedCustomer(customers[id], p))
          /\ lastResp' = Response(200, NULL)
  /\ UNCHANGED << nextCustId, products, competitors >>

\* lines 153-167
DeleteCustomer(id) ==
  /\ ~CustomerLocked(0, id)
  /\ IF id \notin DOMAIN customers
     THEN /\ lastResp' = Response(404, "Customer not found")
          /\ UNCHANGED customers
     ELSE /\ customers' = Without(customers, id)
          /\ lastResp' = Response(200, NULL)
  /\ UNCHANGED << nextCustId, products, competitors >>

CustomerIds == 1..MaxCustomers

\* The bodies the customers specification draws: name and email, with or
\* without a segment; an update of the email, of the counters, or of all.
SomeCustomerBodies ==
  { b \in CustomerBodies : DOMAIN b \subseteq {"name", "email", "segment"} }

SomeCustomerUpdates ==
  { p \in CustomerUpdates :
      \/ DOMAIN p \subseteq {"email", "name"}
      \/ DOMAIN p = {"total_spent", "order_count"}
      \/ DOMAIN p = CustomerColumns }

InitCust ==
  /\ orders = EmptyFn
  /\ order_items = {}
  /\ customers = EmptyFn
  /\ nextCustId = 1
  /\ products = EmptyFn
  /\ competitors = EmptyFn
  /\ lastResp = NoResp
  /\ lastReq = NoReq
  /\ list = NoList
  /\ InitTxn

\* The customers router on its own pool: every request is one statement.
NextCust ==
  \/ \E b \in SomeCustomerBodies, ok \in BOOLEAN :
        PostCustomer(b, ok) /\ UNCHANGED << orders, order_items, txnVars, lastReq, list >>
  \/ \E id \in CustomerIds, p \in SomeCustomerUpdates, ok \in BOOLEAN :
        PutCustomer(id, p, ok) /\ UNCHANGED << orders, order_items, txnVars, lastReq, list >>
  \/ \E id \in CustomerIds :
        DeleteCustomer(id) /\ UNCHANGED << orders, order_items, txnVars, lastReq, list >>

SpecCust == InitCust /\ [][NextCust]_vars

\* ------------------------------------------------- products router
ProductColumns ==
  { "name", "description", "price", "category", "inventory_count", "sku", "active",
    "image_url" }

\* req.body of PUT /products/:id (products.js line 127)
ProductUpdates ==
  Payloads(ProductColumns,
           [name |-> "renamed", description |-> "text", price |-> 999, category |-> "tea",
            inventory_count |-> 7, sku |-> "SKU-2", active |-> FALSE, image_url |-> "url"])

\* products.js lines 130-142: the SET list
UpdatedProduct(row, p) ==
  [row EXCEPT !.name = CoalesceParam(p, "name", @),
              !.description = CoalesceParam(p, "description", @),
              !.price = CoalesceParam(p, "price", @),
              !.category = CoalesceParam(p, "category", @),
              !.inventory_count = CoalesceParam(p, "inventory_count", @),
              !.sku = CoalesceParam(p, "sku", @),
              !.active = CoalesceParam(p, "active", @),
              !.image_url = CoalesceParam(p, "image_url", @)]

\* products.js lines 124-154
PutProduct(id, p, dbOk) ==
  /\ IF ~dbOk
     THEN /\ lastResp' = Response(500, ErrorMessage("08006"))
          /\ UNCHANGED products
     ELSE IF id \notin DOMAIN products
     THEN /\ lastResp' = Response(404, "Product not found")
          /\ UNCHANGED products
     ELSE /\ products' = Put(products, id, UpdatedProduct(products[id], p))
          /\ lastResp' = Response(200, NULL)
  /\ UNCHANGED << customers, nextCustId, competitors >>

\* ---------------------------------------------- competitors router
CompetitorColumns ==
  { "name", "website", "distance", "type", "threat_level", "rating", "rating_change",
    "review_count", "avg_price", "price_diff", "strengths", "weaknesses", "top_items",
    "sentiment", "notes" }

\* req.body of PUT /competitors/:id (competitors.js lines 130-133); top_items
\* is a structured value, sentiment a falsy one ("").
CompetitorUpdates ==
  Payloads(CompetitorColumns,
           [name |-> "renamed", website |-> "site", distance |-> 3, type |-> "Indirect",
            threat_level |-> "high", rating |-> 5, rating_change |-> 1,
            review_count |-> 9, avg_price |-> 12, price_diff |-> 2, strengths |-> "fast",
            weaknesses |-> "far", top_items |-> "array", sentiment |-> "",
            notes |-> "note"])

\* JSON.stringify of a structured value.
JSONStringify(v) == IF v = "array" THEN "[\"array\"]" ELSE "\"\""

\* competitors.js lines 157-158: v ? JSON.stringify(v) : null, under COALESCE
StringifiedParam(p, col, old) ==
  IF col \in DOMAIN p /\ p[col] # "" THEN JSONStringify(p[col]) ELSE old

\* competitors.js lines 136-158: the SET list
UpdatedCompetitor(row, p) ==
  [row EXCEPT !.name = CoalesceParam(p, "name", @),
              !.website = CoalesceParam(p, "website", @),
              !.distance = CoalesceParam(p, "distance", @),
              !.type = CoalesceParam(p, "type", @),
              !.threat_level = CoalesceParam(p, "threat_level", @),
              !.rating = CoalesceParam(p, "rating", @),
              !.rating_change = CoalesceParam(p, "rating_change", @),
              !.review_count = CoalesceParam(p, "review_count", @),
              !.avg_price = CoalesceParam(p, "avg_price", @),
              !.price_diff = CoalesceParam(p, "price_diff", @),
              !.strengths = CoalesceParam(p, "strengths", @),
              !.weaknesses = CoalesceParam(p, "weaknesses", @),
              !.top_items = StringifiedParam(p, "top_items", @),
              !.sentiment = StringifiedParam(p, "sentiment", @),
              !.notes = CoalesceParam(p, "notes", @)]

\* competitors.js lines 127-170
PutCompetitor(id, p, dbOk) ==
  /\ IF ~dbOk
     THEN /\ lastResp' = Response(500, ErrorMessage("08006"))
          /\ UNCHANGED competitors
     ELSE IF id \notin DOMAIN competitors
     THEN /\ lastResp' = Response(404, "Competitor not found")
          /\ UNCHANGED competitors
     ELSE /\ competitors' = Put(competitors, id, UpdatedCompetitor(competitors[id], p))
          /\ lastResp' = Response(200, NULL)
  /\ UNCHANGED << customers, nextCustId, products >>

\* ------------------------------------- the four PUT handlers, one request
\* A database with two rows in every table, the second with its nullable
\* text columns NULL; connection 1 of the orders pool was left in a transaction.
StoredOrders ==
  << NewOrder([has_items |-> TRUE, items |-> << [quantity |-> 2, unit_price |-> 1000],
                                               [quantity |-> 1, unit_price |-> 500] >>,
               customer_id |-> 1, notes |-> "gift"]),
     NewOrder([has_items |-> TRUE, items |-> << [quantity |-> 1, unit_price |-> 500] >>,
               customer_id |-> NoCustomer, notes |-> NULL]) >>

StoredItems ==
  { NewItem(1, 1, [quantity |-> 2, unit_price |-> 1000]),
    NewItem(1, 2, [quantity |-> 1, unit_price |-> 500]),
    NewItem(2, 1, [quantity |-> 1, unit_price |-> 500]) }

StoredCustomers ==
  << Bumped(NewCustomer([name |-> "name", email |-> "a@x", phone |-> "444"]), 2700),
     NewCustomer([name |-> "other", email |-> "b@x"]) >>

StoredProducts ==
  << [name |-> "mug", description |-> "blue", price |-> 500, category |-> "cups",
      inventory_count |-> 3, sku |-> "SKU-1", active |-> TRUE, image_url |-> "img"],
     [name |-> "cup", description |-> NULL, price |-> 400, category |-> NULL,
      inventory_count |-> 0, sku |-> NULL, active |-> TRUE, image_url |-> NULL] >>

StoredCompetitors ==
  << [name |-> "rival", website |-> "web", distance |-> 1, type |-> "Direct Competitor",
      threat_level |-> "medium", rating |-> 4, rating_change |-> 0, review_count |-> 0,
      avg_price |-> 10, price_diff |-> 0, strengths |-> "near", weaknesses |-> "slow",
      top_items |-> "[\"old\"]", sentiment |-> "{}", notes |-> "seen"],
     [name |-> "other", website |-> NULL, distance |-> 2, type |-> "Direct Competitor",
      threat_level |-> "low", rating |-> 3, rating_change |-> 0, review_count |-> 0,
      avg_price |-> 8, price_diff |-> 0, strengths |-> NULL, weaknesses |-> NULL,
      top_items |-> NULL, sentiment |-> NULL, notes |-> NULL] >>

InitPut ==
  /\ orders = StoredOrders
  /\ order_items = StoredItems
  /\ customers = StoredCustomers
  /\ nextCustId = 3
  /\ products = StoredProducts
  /\ competitors = StoredCompetitors
  /\ lastResp = NoResp
  /\ lastReq = NoReq
  /\ list = NoList
  /\ nextOrderId = 3
  /\ conn = [k \in Conns |-> [CleanConn EXCEPT !.inTxn = (k = 1)]]
  /\ pc = [r \in Reqs |-> "idle"]
  /\ body = [r \in Reqs |-> NoBody]
  /\ client = [r \in Reqs |-> 0]
  /\ order = [r \in Reqs |-> 0]
  /\ itemIdx = [r \in Reqs |-> 0]
  /\ resp = [r \in Reqs |-> 0]
  /\ log = [r \in Reqs |-> <<>>]

Request(route, id, p) == [route |-> route, id |-> id, fields |-> DOMAIN p]

\* Ids of the stored rows, and one that is not stored.
PutIds == 1..3

NextPut ==
  \/ /\ lastReq = NoReq
     /\ \E k \in Conns, id \in PutIds, p \in OrderUpdates :
        /\ PutOrder(k, id, p)
        /\ lastReq' = Request("orders", id, p)
        /\ UNCHANGED << nextCustId, products, competitors, list >>
  \/ /\ lastReq = NoReq
     /\ \E id \in PutIds, p \in CustomerUpdates, ok \in BOOLEAN :
        /\ PutCustomer(id, p, ok)
        /\ lastReq' = Request("customers", id, p)
        /\ UNCHANGED << orders, order_items, txnVars, list >>
  \/ /\ lastReq = NoReq
     /\ \E id \in PutIds, p \in ProductUpdates, ok \in BOOLEAN :
        /\ PutProduct(id, p, ok)
        /\ lastReq' = Request("products", id, p)
        /\ UNCHANGED << orders, order_items, txnVars, list >>
  \/ /\ lastReq = NoReq
     /\ \E id \in PutIds, p \in CompetitorUpdates, ok \in BOOLEAN :
        /\ PutCompetitor(id, p, ok)
        /\ lastReq' = Request("competitors", id, p)
        /\ UNCHANGED << orders, order_items, txnVars, list >>

SpecPut == InitPut /\ [][NextPut]_vars

\* ------------------------------------------------ the list endpoints
MaxLimit  == 1   \* largest limit a request names
MaxOffset == 2   \* largest offset a request names

\* part_000 line 27, part_001 line 18, products.js line 19: limit = 50
DefaultLimit == 50
\* competitors.js line 19: limit = 20
CompetitorsLimit == 20
\* offset = 0 on the same lines
DefaultOffset == 0

Routes == { "orders", "products", "customers", "competitors" }

\* Text columns searched with ILIKE are sequences of characters; a NULL one
\* is the sequence holding NULL alone.
NullText == << NULL >>

Min(a, b) == IF a <= b THEN a ELSE b

Merge(f, g) == [x \in DOMAIN f \cup DOMAIN g |-> IF x \in DOMAIN f THEN f[x] ELSE g[x]]

LowerChar(ch) ==
  IF ch = "A" THEN "a" ELSE IF ch = "B" THEN "b" ELSE IF ch = "O" THEN "o" ELSE ch

LowerText(t) == [i \in 1..Len(t) |-> LowerChar(t[i])]

\* text LIKE pattern: % matches any run of characters, _ any one character.
RECURSIVE Like(_, _)
Like(text, pattern) ==
  IF pattern = <<>> THEN text = <<>>
  ELSE IF Head(pattern) = "%"
  THEN Like(text, Tail(pattern)) \/ (text # <<>> /\ Like(Tail(text), pattern))
  ELSE /\ text # <<>>
       /\ Head(pattern) = "_" \/ Head(pattern) = Head(text)
       /\ Like(Tail(text), Tail(pattern))

\* text ILIKE pattern; NULL ILIKE pattern is not true.
ILike(text, pattern) ==
  text # NullText /\ Like(LowerText(text), LowerText(pattern))

\* `%${search}%`
Pattern(search) == << "%" >> \o search \o << "%" >>

\* The conditions and params arrays of a handler.
NoFilters == [conditions |-> <<>>, params |-> <<>>]

\* conditions.push(`... $${params.length + 1}`); params.push(value)
AddCond(b, op, cols, value) ==
  [conditions |-> Append(b.conditions, [op |-> op, cols |-> cols, ph |-> Len(b.params) + 1]),
   params |-> Append(b.params, value)]

\* if (field), for a text and for a keyword parameter of req.query
TruthyText(q, f) == f \in DOMAIN q /\ q[f] # <<>>
TruthyStr(q, f) == f \in DOMAIN q /\ q[f] # ""

\* part_000 lines 37-50
OrdersFilters(q) ==
  LET b1 == IF TruthyText(q, "search")
            THEN AddCond(NoFilters, "ilike", << "order_number", "customer_name" >>,
                         Pattern(q.search))
            ELSE NoFilters
      b2 == IF TruthyStr(q, "status") THEN AddCond(b1, "eq", << "status" >>, q.status)
            ELSE b1
  IN  IF TruthyStr(q, "payment_status")
      THEN AddCond(b2, "eq", << "payment_status" >>, q.payment_status)
      ELSE b2

\* products.js lines 25-38: active is tested against undefined, and bound as
\* active === 'true'
ProductsFilters(q) ==
  LET b1 == IF TruthyText(q, "search")
            THEN AddCond(NoFilters, "ilike", << "name", "description" >>, Pattern(q.search))
            ELSE NoFilters
      b2 == IF TruthyStr(q, "category") THEN AddCond(b1, "eq", << "category" >>, q.category)
            ELSE b1
  IN  IF "active" \in DOMAIN q THEN AddCond(b2, "eq", << "active" >>, q.active = "true")
      ELSE b2

\* part_001 lines 25-33
CustomersFilters(q) ==
  LET b1 == IF TruthyText(q, "search")
            THEN AddCond(NoFilters, "ilike", << "name", "email" >>, Pattern(q.search))
            ELSE NoFilters
  IN  IF TruthyStr(q, "segment") THEN AddCond(b1, "eq", << "segment" >>, q.segment)
      ELSE b1

\* competitors.js lines 24-27 and 38-40: ' WHERE threat_level = $1'
CompetitorsWhere(q) ==
  IF TruthyStr(q, "threat_level")
  THEN << [op |-> "eq", cols |-> << "threat_level" >>, ph |-> 1] >>
  ELSE <<>>

\* competitors.js lines 22-27
CompetitorsFilters(q) ==
  [conditions |-> CompetitorsWhere(q),
   params |-> IF TruthyStr(q, "threat_level") THEN << q.threat_level >> ELSE <<>>]

Filters(route, q) ==
  IF route = "orders" THEN OrdersFilters(q)
  ELSE IF route = "products" THEN ProductsFilters(q)
  ELSE IF route = "customers" THEN CustomersFilters(q)
  ELSE CompetitorsFilters(q)

LimitOf(route, q) ==
  IF "limit" \in DOMAIN q THEN q.limit
  ELSE IF route = "competitors" THEN CompetitorsLimit ELSE DefaultLimit

OffsetOf(q) == IF "offset" \in DOMAIN q THEN q.offset ELSE DefaultOffset

\* The page query: WHERE conditions.join(' AND '), LIMIT $n+1 OFFSET $n+2,
\* params.push(limit, offset)
PageQuery(route, q) ==
  LET b == Filters(route, q) IN
  [conditions |-> b.conditions,
   limit_ph |-> Len(b.params) + 1,
   offset_ph |-> Len(b.params) + 2,
   params |-> b.params \o << LimitOf(route, q), OffsetOf(q) >>]

\* Mutant: params.slice(0, -1)
SliceOffLast(params) == SubSeq(params, 1, Len(params) - 1)

\* params.slice(0, -2)
SliceOffLastTwo(params) == SubSeq(params, 1, Len(params) - 2)

\* The count query: the same conditions with params.slice(0, -2); in
\* competitors.js the clause and the array built again from threat_level.
CountQuery(route, q, pageParams) ==
  IF route = "competitors"
  THEN [conditions |-> CompetitorsWhere(q),
        params |-> IF TruthyStr(q, "threat_level") THEN << q.threat_level >> ELSE <<>>]
  ELSE [conditions |-> Filters(route, q).conditions, params |-> SliceOffLastTwo(pageParams)]

\* A condition of the WHERE clause on a row; a comparison with NULL is not true.
Holds(row, cond, params) ==
  IF cond.op = "ilike"
  THEN \E i \in 1..Len(cond.cols) : ILike(row[cond.cols[i]], params[cond.ph])
  ELSE row[cond.cols[1]] = params[cond.ph]

\* The ids of the rows of relation rel the WHERE clause of query selects.
Selected(rel, query) ==
  { i \in DOMAIN rel :
      \A n \in 1..Len(query.conditions) : Holds(rel[i], query.conditions[n], query.params) }

\* part_000 lines 29-33: orders o LEFT JOIN customers c ON o.customer_id = c.id,
\* as session s reads them
OrdersJoined(s) ==
  LET o == ViewOrders(s)
      c == ViewCustomers(s)
  IN  [i \in DOMAIN o |->
         Merge([customer_name |-> IF o[i].customer_id \in DOMAIN c
                                  THEN c[o[i].customer_id].name ELSE NullText],
               o[i])]

\* The FROM clause of a list endpoint.  The orders router's statement runs on
\* connection k of its pool; the other routers' pools never hold a transaction.
Relation(route, k) ==
  IF route = "orders" THEN OrdersJoined(conn[k])
  ELSE IF route = "products" THEN products
  ELSE IF route = "customers" THEN customers
  ELSE competitors

\* ORDER BY created_at DESC (rows get created_at and their id in insertion
\* order); ORDER BY distance ASC in competitors.js line 29.
SortKey(route, rel) ==
  [i \in DOMAIN rel |-> IF route = "competitors" THEN rel[i].distance ELSE 0 - i]

RECURSIVE SortByKey(_, _)
SortByKey(S, key) ==
  IF S = {} THEN <<>>
  ELSE LET m == CHOOSE x \in S : \A y \in S : key[x] <= key[y]
       IN  << m >> \o SortByKey(S \ {m}, key)

\* LIMIT lim OFFSET off of the ordered rows
Slice(sorted, lim, off) ==
  IF off >= Len(sorted) THEN <<>> ELSE SubSeq(sorted, off + 1, Min(off + lim, Len(sorted)))

\* result.rows of the page query, as ids
RunPage(route, k, query) ==
  LET rel == Relation(route, k) IN
  Slice(SortByKey(Selected(rel, query), SortKey(route, rel)),
        query.params[query.limit_ph], query.params[query.offset_ph])

\* Mutant: the count query without its WHERE clause.
RunCountAll(route, k, query) == Cardinality(DOMAIN Relation(route, k))

\* countResult.rows[0].count
RunCount(route, k, query) == Cardinality(Selected(Relation(route, k), query))

\* An idle connection of the pool of the route's router (0: a pool of its own).
ServedBy(route, k) ==
  IF route = "orders" THEN k \in Conns /\ ~conn[k].busy ELSE k = 0

\* The handler up to its first await: the queries built, the page query run.
ListPage(route, q, k, dbOk) ==
  /\ list.stage = "idle"
  /\ ServedBy(route, k)
  /\ IF dbOk
     THEN /\ list' = [stage |-> "count", route |-> route, query |-> q,
                      pageQuery |-> PageQuery(route, q), pageConn |-> k,
                      page |-> RunPage(route, k, PageQuery(route, q)),
                      pageRel |-> Relation(route, k),
                      seen |-> { Relation(route, k) }]
          /\ UNCHANGED lastResp
     ELSE /\ list' = [stage |-> "done", route |-> route, query |-> q]
          /\ lastResp' = Response(500, ErrorMessage("08006"))
  /\ UNCHANGED << orders, order_items, customers, txnVars, nextCustId, products,
                  competitors, lastReq >>

\* The count query and the response.
ListCount(k, dbOk) ==
  /\ list.stage = "count"
  /\ ServedBy(list.route, k)
  /\ IF dbOk
     THEN /\ list' = LET countQuery == CountQuery(list.route, list.query,
                                                  list.pageQuery.params)
                     IN  Merge([stage |-> "done", countConn |-> k,
                                countQuery |-> countQuery,
                                total |-> RunCount(list.route, k, countQuery)],
                               list)
          /\ lastResp' = Response(200, NULL)
     ELSE /\ list' = [stage |-> "done", route |-> list.route, query |-> list.query]
          /\ lastResp' = Response(500, ErrorMessage("08006"))
  /\ UNCHANGED << orders, order_items, customers, txnVars, nextCustId, products,
                  competitors, lastReq >>

\* Two rows in every table, text columns as sequences of characters.
ListedOrders ==
  [i \in 1..2 |-> Merge([order_number |-> << "O", "R", "D", <<"1", "2">>[i] >>],
                        StoredOrders[i])]

ListedCustomers ==
  << Merge([name |-> << "B", "o" >>, email |-> << "b", "@", "x" >>, segment |-> "vip"],
           StoredCustomers[1]),
     Merge([name |-> << "A", "l" >>, email |-> << "a", "@", "x" >>], StoredCustomers[2]) >>

ListedProducts ==
  << Merge([name |-> << "m", "u", "g" >>, description |-> << "b", "l", "u", "e" >>],
           StoredProducts[1]),
     Merge([name |-> << "c", "u", "p" >>, description |-> NullText, active |-> FALSE],
           StoredProducts[2]) >>

\* req.query of a list request: filters absent, empty or given; limit and
\* offset absent or given.
Pagings ==
  { EmptyBody } \cup { [limit |-> l, offset |-> o] : l \in 0..MaxLimit, o \in 0..MaxOffset }

FilterChoices(route) ==
  IF route = "orders"
  THEN Payloads({ "search", "status", "payment_status" },
                [search |-> << "o" >>, status |-> "completed", payment_status |-> "unpaid"])
       \cup { [search |-> <<>>, status |-> ""], [search |-> << "2" >>] }
  ELSE IF route = "products"
  THEN Payloads({ "search", "category", "active" },
                [search |-> << "U" >>, category |-> "cups", active |-> "true"])
       \cup { [active |-> "false"], [active |-> ""], [search |-> <<>>, category |-> ""] }
  ELSE IF route = "customers"
  THEN Payloads({ "search", "segment" }, [search |-> << "@" >>, segment |-> "vip"])
       \cup { [search |-> << "a", "l" >>], [search |-> <<>>, segment |-> ""] }
  ELSE { EmptyBody, [threat_level |-> "medium"], [threat_level |-> ""],
         [threat_level |-> "none"] }

ListQueries(route) == { Merge(f, pg) : f \in FilterChoices(route), pg \in Pagings }

InitList ==
  /\ orders = ListedOrders
  /\ order_items = StoredItems
  /\ customers = ListedCustomers
  /\ nextCustId = 3
  /\ products = ListedProducts
  /\ competitors = StoredCompetitors
  /\ lastResp = NoResp
  /\ lastReq = NoReq
  /\ list = NoList
  /\ nextOrderId = 3
  /\ conn = [k \in Conns |-> CleanConn]
  /\ pc = [r \in Reqs |-> "idle"]
  /\ body = [r \in Reqs |-> NoBody]
  /\ client = [r \in Reqs |-> 0]
  /\ order = [r \in Reqs |-> 0]
  /\ itemIdx = [r \in Reqs |-> 0]
  /\ resp = [r \in Reqs |-> 0]
  /\ log = [r \in Reqs |-> <<>>]

ListedIds == 1..2

\* PUT /orders/:id with only status
StatusUpdates == { p \in OrderUpdates : DOMAIN p = { "status" } }

\* One list request, after a POST /orders without items and PUT /orders/:id
\* requests; nothing else runs while it is served.
NextList ==
  \/ /\ list.stage = "idle"
     /\ PostConnect(1)
     /\ ItemsMissing(body'[1])
     /\ UNCHANGED crudVars
  \/ list.stage = "idle" /\ PostBegin(1) /\ UNCHANGED crudVars
  \/ list.stage = "idle" /\ PostRollback(1) /\ UNCHANGED crudVars
  \/ /\ list.stage = "idle"
     /\ \E k \in Conns, id \in ListedIds, p \in StatusUpdates :
          PutOrderStmt(k, id, p) /\ UNCHANGED crudVars
  \/ /\ list.stage = "idle"
     /\ \E route \in Routes, k \in {0} \cup Conns, ok \in BOOLEAN :
          \E q \in ListQueries(route) : ListPage(route, q, k, ok)
  \/ \E k \in {0} \cup Conns, ok \in BOOLEAN : ListCount(k, ok)

SpecList == InitList /\ [][NextList]_vars

\* ------------------------- a list request among concurrent writers
\* The FROM clause of the route's list endpoint once the step is taken, as a
\* session without uncommitted writes reads it.
RelationAfter(route) ==
  IF route = "orders" THEN OrdersJoined(CleanConn)'
  ELSE IF route = "products" THEN products'
  ELSE IF route = "customers" THEN customers'
  ELSE competitors'

\* The list request in progress, if any, sees the table change.
Observed ==
  IF list.stage = "count" THEN [list EXCEPT !.seen = @ \cup { RelationAfter(list.route) }]
  ELSE list

\* Exact-match filters only: no text column is searched here.
ConcQueries(route) == { q \in ListQueries(route) : "search" \notin DOMAIN q }

\* POST /customers bodies with name and email.
NamedBodies == { b \in CustomerBodies : DOMAIN b = { "name", "email" } }

InitConc ==
  /\ orders = StoredOrders
  /\ order_items = StoredItems
  /\ customers = [c \in {1} |-> Merge([name |-> << "B", "o" >>], StoredCustomers[c])]
  /\ nextCustId = 2
  /\ products = StoredProducts
  /\ competitors = StoredCompetitors
  /\ lastResp = NoResp
  /\ lastReq = NoReq
  /\ list = NoList
  /\ nextOrderId = 3
  /\ conn = [k \in Conns |-> CleanConn]
  /\ pc = [r \in Reqs |-> "idle"]
  /\ body = [r \in Reqs |-> NoBody]
  /\ client = [r \in Reqs |-> 0]
  /\ order = [r \in Reqs |-> 0]
  /\ itemIdx = [r \in Reqs |-> 0]
  /\ resp = [r \in Reqs |-> 0]
  /\ log = [r \in Reqs |-> <<>>]

\* One list request of the orders or the customers router, with POST and
\* DELETE /customers and DELETE /orders requests before, during and after it.
NextConc ==
  \/ /\ list.stage = "idle"
     /\ \E route \in { "orders", "customers" }, k \in {0} \cup Conns, ok \in BOOLEAN :
          \E q \in ConcQueries(route) : ListPage(route, q, k, ok)
  \/ \E k \in {0} \cup Conns, ok \in BOOLEAN : ListCount(k, ok)
  \/ \E b \in NamedBodies :
       /\ PostCustomer(b, TRUE)
       /\ UNCHANGED << orders, order_items, txnVars, lastReq >>
       /\ list' = Observed
  \/ \E id \in CustomerIds :
       /\ DeleteCustomer(id)
       /\ UNCHANGED << orders, order_items, txnVars, lastReq >>
       /\ list' = Observed
  \/ \E k \in Conns, id \in ListedIds :
       /\ DeleteOrder(k, id)
       /\ UNCHANGED << nextCustId, products, competitors, lastResp, lastReq >>
       /\ list' = Observed

SpecConc == InitConc /\ [][NextConc]_vars

\* ------------------------------------------------------ specification
OrderIds == 1..NReq

\* The status-only update and the full update.
SomeOrderUpdates ==
  { p \in OrderUpdates : DOMAIN p = {"status"} \/ DOMAIN p = OrderColumns }

\* The orders router: concurrent POST /orders requests, PUT and DELETE.
Next ==
  \/ \E r \in Reqs : PostConnect(r) /\ UNCHANGED crudVars
  \/ \E r \in Reqs : PostBegin(r) /\ UNCHANGED crudVars
  \/ \E r \in Reqs : PostInsertOrder(r) /\ UNCHANGED crudVars
  \/ \E r \in Reqs : PostInsertItem(r) /\ UNCHANGED crudVars
  \/ \E r \in Reqs : PostUpdateCustomer(r) /\ UNCHANGED crudVars
  \/ \E r \in Reqs : PostCommit(r) /\ UNCHANGED crudVars
  \/ \E r \in Reqs : PostRollback(r) /\ UNCHANGED crudVars
  \/ \E k \in Conns, id \in OrderIds, p \in SomeOrderUpdates :
        PutOrderStmt(k, id, p) /\ UNCHANGED crudVars
  \/ \E k \in Conns, id \in OrderIds : DeleteOrder(k, id) /\ UNCHANGED crudVars

Spec == Init /\ [][Next]_vars

\* ------------------------------------- POST /orders under fair scheduling
\* The next step of request r's handler.
PostStep(r) ==
  /\ \/ PostConnect(r)
     \/ PostBegin(r)
     \/ PostInsertOrder(r)
     \/ PostInsertItem(r)
     \/ PostUpdateCustomer(r)
     \/ PostCommit(r)
     \/ PostRollback(r)
  /\ UNCHANGED crudVars

\* Every step of the handler changes its position, its item index or its log.
stepVars == << pc, itemIdx, log >>

NextLive == \E r \in Reqs : PostStep(r)

\* The event loop resumes a handler whenever the promise it awaits settles:
\* a step that stays possible is taken.
SpecLive == Init /\ [][NextLive]_vars /\ \A r \in Reqs : WF_stepVars(PostStep(r))

\* ------------------------------------------------------------ history
Events(r) == { log[r][i] : i \in 1..Len(log[r]) }

Count(s, e) == Cardinality({ i \in 1..Len(s) : s[i] = e })

\* e occurs in s, and its first occurrence precedes the first of f.
Before(s, e, f) ==
  \E i \in 1..Len(s) : s[i] = e /\ \A j \in 1..Len(s) : s[j] = f => i < j

InFlight(r) == pc[r] \notin { "idle", "done" }

\* The request whose INSERT was given order id.
Creator(id) == CHOOSE r \in Reqs : order[r] = id

ItemsOf(id) == { it \in order_items : it.order_id = id }

\* The committed requests that attached customer c.
CommittedFor(c) == { r \in Reqs : resp[r] = 201 /\ body[r].customer_id = c }

RequestTotal(r) == TotalOf(Subtotal(body[r].items))

\* Sum of the totals of the requests R.
RECURSIVE SumTotals(_)
SumTotals(R) ==
  IF R = {} THEN 0
  ELSE LET r == CHOOSE x \in R : TRUE IN RequestTotal(r) + SumTotals(R \ {r})

\* Sum of quantity * unit_price over the item rows S.
RECURSIVE SumAmounts(_)
SumAmounts(S) ==
  IF S = {} THEN 0
  ELSE LET it == CHOOSE x \in S : TRUE
       IN  it.quantity * it.unit_price + SumAmounts(S \ {it})

\* ------------------------------------------------------------- claims

\* C1: POST /orders is all-or-nothing.  A request that was not committed
\* (it failed at a statement, or is still running) has no order row and no
\* order_items row in the committed tables and has not changed its customer's
\* counters; a committed order that is still stored has all its item rows.
C1_AllOrNothing ==
  /\ \A r \in Reqs :
       resp[r] # 201 =>
         /\ order[r] \notin DOMAIN orders
         /\ ItemsOf(order[r]) = {}
         /\ pc[r] # "idle" /\ body[r].customer_id \in DOMAIN customers =>
              LET c == body[r].customer_id
                  others == CommittedFor(c) \ {r}
              IN  /\ customers[c].order_count = Cardinality(others)
                  /\ customers[c].total_spent = SumTotals(others)
  /\ \A id \in DOMAIN orders :
       Cardinality(ItemsOf(id)) = Len(body[Creator(id)].items)
  /\ \A it \in order_items : it.order_id \in DOMAIN orders

\* A request whose COMMIT failed after the order, two items and the customer
\* update were written, and whose ROLLBACK then succeeded.
C1_Witness ==
  \E r \in Reqs :
     /\ pc[r] = "done" /\ resp[r] = 500
     /\ Count(log[r], "COMMIT") = 1
     /\ Len(body[r].items) = 2 /\ body[r].customer_id # NoCustomer
     /\ order[r] # 0

\* C2: a customer's order_count is the number of committed POST /orders
\* requests that attached the customer and total_spent the sum of their
\* totals, whatever the interleaving; failed requests contribute nothing.
C2_CountersExact ==
  \A c \in DOMAIN customers :
     /\ customers[c].order_count = Cardinality(CommittedFor(c))
     /\ customers[c].total_spent = SumTotals(CommittedFor(c))

\* Two overlapping transactions on one customer: request 2 inserted its order
\* first, request 1 committed meanwhile, and request 2, not yet committed,
\* has counted its order on top of request 1's.
C2_Witness ==
  \E c \in DOMAIN customers :
     /\ CommittedFor(c) = {1}
     /\ pc[2] = "commit" /\ body[2].customer_id = c
     /\ order[2] < order[1]
     /\ conn[client[2]].cust[c].order_count = 2

C4_EmptyItems400 ==
  \A r \in Reqs :
     pc[r] = "done" /\ ItemsMissing(body[r]) =>
        /\ resp[r] = 400
        /\ order[r] = 0

\* C9: a connection is checked out exactly while a request holds it, every
\* request that obtained one releases it exactly once, and none is checked
\* out once every request has finished.
C9_ReleasedOnce ==
  /\ \A k \in Conns :
       conn[k].busy <=> \E r \in Reqs : InFlight(r) /\ client[r] = k
  /\ \A r \in Reqs :
       /\ Count(log[r], "release") <= 1
       /\ pc[r] = "done" /\ client[r] # 0 => Count(log[r], "release") = 1
       /\ InFlight(r) => Count(log[r], "release") = 0
  /\ (\A r \in Reqs : ~InFlight(r)) => \A k \in Conns : ~conn[k].busy

\* Every request has finished, one on each path: 201, 400, 500 and a failed
\* ROLLBACK are all among them when NReq allows; here a failed ROLLBACK and
\* a 400.
C9_Witness ==
  /\ \A r \in Reqs : pc[r] = "done"
  /\ \E r \in Reqs : "ROLLBACK" \in Events(r) /\ resp[r] = 0
  /\ \E r \in Reqs : resp[r] = 400
  /\ \A k \in Conns : ~conn[k].busy

\* C10: after a statement of the transaction fails, ROLLBACK is issued
\* before the 500 response and before the release, and the 500 response is
\* sent with no transaction open on the request's connection.
C10_RollbackBeforeError ==
  /\ [](\A r \in Reqs :
          /\ pc[r] = "done" /\ "throw" \in Events(r) => "ROLLBACK" \in Events(r)
          /\ "res500" \in Events(r) =>
                /\ Before(log[r], "throw", "ROLLBACK")
                /\ Before(log[r], "ROLLBACK", "res500")
          /\ "throw" \in Events(r) /\ "release" \in Events(r) =>
                Before(log[r], "ROLLBACK", "release")
          /\ resp[r] = 500 <=> "res500" \in Events(r))
  /\ [][\A r \in Reqs :
          resp[r] # 500 /\ resp'[r] = 500 =>
             /\ pc[r] = "rollback"
             /\ ~conn'[client[r]].inTxn]_vars

\* An INSERT INTO order_items failed and the request was answered 500.
C10_Witness ==
  \E r \in Reqs :
     /\ resp[r] = 500
     /\ order[r] # 0
     /\ Count(log[r], "COMMIT") = 0

\* No two stored customers share an email.
UniqueEmails ==
  \A c, d \in DOMAIN customers : customers[c].email = customers[d].email => c = d

DuplicateEmailResponse == Response(400, "Customer with this email already exists")

\* C7 as stated: a POST /customers whose email a stored customer holds is answered 400
\* 'Customer with this email already exists' and changes no row; no two rows
\* ever share an email.
C7_DuplicateEmail ==
  /\ []UniqueEmails
  /\ [][\A b \in CustomerBodies, ok \in BOOLEAN :
          PostCustomer(b, ok) /\ "email" \in DOMAIN b /\ EmailTaken(b.email, 0) =>
             lastResp' = DuplicateEmailResponse /\ customers' = customers]_vars

\* C7 amended: the same for a request that also carries a name and whose
\* INSERT the database executes.
C7_DuplicateEmailNamed ==
  /\ []UniqueEmails
  /\ [][\A b \in CustomerBodies :
          /\ PostCustomer(b, TRUE)
          /\ "name" \in DOMAIN b /\ "email" \in DOMAIN b /\ EmailTaken(b.email, 0)
          => lastResp' = DuplicateEmailResponse /\ customers' = customers]_vars

\* The duplicate was refused with two customers stored.
C7_Witness ==
  /\ lastResp = DuplicateEmailResponse
  /\ Cardinality(DOMAIN customers) = 2

\* C8: a request that hits the unique constraint on customers.email, POST or
\* PUT, is answered 400, never 500, and changes no row.
C8_UniqueViolation400 ==
  [][/\ \A b \in CustomerBodies :
          /\ PostCustomer(b, TRUE)
          /\ "name" \in DOMAIN b /\ "email" \in DOMAIN b /\ EmailTaken(b.email, 0)
          => lastResp'.status = 400 /\ customers' = customers
     /\ \A id \in DOMAIN customers, p \in CustomerUpdates :
          /\ PutCustomer(id, p, TRUE)
          /\ "email" \in DOMAIN p /\ EmailTaken(p.email, id)
          => lastResp'.status = 400 /\ customers' = customers]_vars

\* C6: a PUT changes, in the row with the given id, only columns whose field
\* the body supplies; omitted columns keep their stored value (never NULL in
\* its place); every other row and every other table is unchanged.  For
\* orders this holds of the committed table and of what each session reads.
KeepsOmitted(old, new, id, fields) ==
  /\ DOMAIN new = DOMAIN old
  /\ \A i \in DOMAIN old :
       IF i = id
       THEN \A c \in DOMAIN old[i] \ fields : new[i][c] = old[i][c]
       ELSE new[i] = old[i]

\* C6: the row a PUT addresses keeps every column the body omits, and no
\* other row or table changes.
C6_PutKeepsOmitted ==
  [][lastReq' # lastReq =>
       LET id == lastReq'.id
           fields == lastReq'.fields
           route == lastReq'.route
       IN  /\ IF route = "orders"
              THEN /\ KeepsOmitted(orders, orders', id, fields)
                   /\ \A k \in Conns :
                        KeepsOmitted(ViewOrders(conn[k]), ViewOrders(conn[k])', id, fields)
              ELSE orders' = orders /\ conn' = conn
           /\ IF route = "customers" THEN KeepsOmitted(customers, customers', id, fields)
              ELSE customers' = customers
           /\ IF route = "products" THEN KeepsOmitted(products, products', id, fields)
              ELSE products' = products
           /\ IF route = "competitors"
              THEN KeepsOmitted(competitors, competitors', id, fields)
              ELSE competitors' = competitors
           /\ order_items' = order_items]_vars

\* PUT /orders/1 with only status: status changed, payment_status and notes
\* as stored.
C6_Witness ==
  /\ lastReq = [route |-> "orders", id |-> 1, fields |-> {"status"}]
  /\ lastResp.status = 200
  /\ orders[1].status = "completed"
  /\ orders[1].payment_status = "unpaid" /\ orders[1].notes = "gift"

\* C5: the total a list request returns is the number of rows that satisfy
\* the WHERE clause of its page query, in the database as the page query read
\* it, whatever the limit and the offset and however long the page.
C5_TotalCountsFiltered ==
  [][list.stage = "count" /\ list'.stage = "done" /\ lastResp'.status = 200 =>
       list'.total =
         Cardinality(Selected(Relation(list.route, list.pageConn), list.pageQuery))]_vars

\* The same of a request whose two queries ran on sessions without
\* uncommitted writes, or on one session.
ListTotalOnOneView ==
  [][/\ list.stage = "count" /\ list'.stage = "done" /\ lastResp'.status = 200
     /\ list.route = "orders" =>
          \/ list'.countConn = list.pageConn
          \/ \A k \in {list.pageConn, list'.countConn} : ViewOrders(conn[k]) = orders
     => /\ list'.total =
            Cardinality(Selected(Relation(list.route, list.pageConn), list.pageQuery))
        /\ Len(list.page) <= list'.total]_vars

\* C11: every POST /orders request that reaches the handler is eventually
\* answered, and no request is answered twice.
C11_AnsweredOnce ==
  /\ \A r \in Reqs : (pc[r] # "idle") ~> (resp[r] # 0)
  /\ [](\A r \in Reqs :
          Count(log[r], "res201") + Count(log[r], "res400") + Count(log[r], "res500") <= 1)

\* The filters a list endpoint supports, in the order its handler collects
\* them, and the columns each is compared with.
FilterOrder(route) ==
  IF route = "orders" THEN << "search", "status", "payment_status" >>
  ELSE IF route = "products" THEN << "search", "category", "active" >>
  ELSE IF route = "customers" THEN << "search", "segment" >>
  ELSE << "threat_level" >>

FilterColumns(route, f) ==
  IF f # "search" THEN << f >>
  ELSE IF route = "orders" THEN << "order_number", "customer_name" >>
  ELSE IF route = "products" THEN << "name", "description" >>
  ELSE << "name", "email" >>

\* The value a filter binds: the pattern of a substring filter, the boolean
\* of a boolean filter, the parameter itself of an exact match.
FilterValue(f, v) ==
  IF f = "search" THEN Pattern(v) ELSE IF f = "active" THEN v = "true" ELSE v

\* Filter f is present in the request and not empty; a present boolean filter
\* counts when empty too if emptyBoolean.
IsGiven(f, q, emptyBoolean) ==
  /\ f \in DOMAIN q
  /\ IF f = "search" THEN q[f] # <<>>
     ELSE IF f = "active" /\ emptyBoolean THEN TRUE
     ELSE q[f] # ""

RECURSIVE GivenFilters(_, _, _)
GivenFilters(fields, q, emptyBoolean) ==
  IF fields = <<>> THEN <<>>
  ELSE LET rest == GivenFilters(Tail(fields), q, emptyBoolean)
       IN  IF IsGiven(Head(fields), q, emptyBoolean) THEN << Head(fields) >> \o rest
           ELSE rest

\* The page query pq and the count query cq built for request q are aligned.
Aligned(route, q, pq, cq, emptyBoolean) ==
  LET fs == GivenFilters(FilterOrder(route), q, emptyBoolean)
      k == Len(fs)
  IN  /\ Len(pq.conditions) = k
      /\ Len(pq.params) = k + 2
      /\ \A i \in 1..k :
            /\ pq.conditions[i].ph = i
            /\ pq.conditions[i].cols = FilterColumns(route, fs[i])
            /\ pq.conditions[i].op = (IF fs[i] = "search" THEN "ilike" ELSE "eq")
            /\ pq.params[i] = FilterValue(fs[i], q[fs[i]])
      /\ pq.limit_ph = k + 1
      /\ pq.offset_ph = k + 2
      /\ cq.conditions = pq.conditions
      /\ Len(cq.params) = k
      /\ \A i \in 1..k : cq.params[i] = pq.params[i]

\* C12 as stated: the queries of every served list request are aligned, absent
\* and empty filters contributing nothing.
C12_QueriesAligned ==
  "countQuery" \in DOMAIN list =>
     Aligned(list.route, list.query, list.pageQuery, list.countQuery, FALSE)

\* C12 amended: the same, except that the active filter of GET /products
\* contributes its fragment and the value false when present but empty.
C12_QueriesAlignedBoolean ==
  "countQuery" \in DOMAIN list =>
     Aligned(list.route, list.query, list.pageQuery, list.countQuery, TRUE)

\* GET /orders with search, status and payment_status was served: three
\* fragments, LIMIT $4 OFFSET $5.
C12_Witness ==
  /\ "countQuery" \in DOMAIN list
  /\ list.route = "orders"
  /\ Len(list.pageQuery.conditions) = 3
  /\ list.pageQuery.limit_ph = 4
  /\ Len(list.countQuery.params) = 3

\* C13: a connection that is back in the pool has no open transaction: every
\* BEGIN of the handler was matched by COMMIT or ROLLBACK before the release.
C13_ReleasedWithoutTransaction ==
  /\ \A k \in Conns : ~conn[k].busy => ~conn[k].inTxn
  /\ \A r \in Reqs :
        Count(log[r], "release") = 1 =>
           Count(log[r], "BEGIN") <= Count(log[r], "COMMIT") + Count(log[r], "ROLLBACK")

\* In table state rel, page is the slice the page query pq selects and total
\* the number of rows its WHERE clause selects.
FromState(rel, route, pq, page, total) ==
  /\ total = Cardinality(Selected(rel, pq))
  /\ page = Slice(SortByKey(Selected(rel, pq), SortKey(route, rel)),
                  pq.params[pq.limit_ph], pq.params[pq.offset_ph])

\* C14 as stated: the page and the total of a list response come from one
\* state of the table, among those it was in while the request was served.
C14_PageAndTotalOfOneState ==
  [][list.stage = "count" /\ list'.stage = "done" /\ lastResp'.status = 200 =>
       \E rel \in list.seen :
          FromState(rel, list.route, list.pageQuery, list.page, list'.total)]_vars

\* C14 amended: the page is the slice of the rows the page query read, the
\* total the count of the rows the count query read later; they come from
\* one state when the two queries read the same rows.
C14_PageAndTotalOfTwoReads ==
  [][list.stage = "count" /\ list'.stage = "done" /\ lastResp'.status = 200 =>
       LET countRel == Relation(list.route, list'.countConn) IN
       /\ FromState(list.pageRel, list.route, list.pageQuery, list.page,
                    Cardinality(Selected(list.pageRel, list.pageQuery)))
       /\ list'.total = Cardinality(Selected(countRel, list.pageQuery))
       /\ countRel = list.pageRel =>
             FromState(countRel, list.route, list.pageQuery, list.page, list'.total)]_vars

\* A customer was deleted between the two queries: both rows in the page,
\* total 1.
C14_Witness ==
  /\ list.stage = "done"
  /\ "total" \in DOMAIN list
  /\ list.route = "customers"
  /\ Len(list.page) = 2
  /\ list.total = 1
  /\ Cardinality(list.seen) = 2

====
